---- MODULE Spec2Model ----
(***************************************************************************)
(* Model of sme_app.py, the South-West SME dashboard script.               *)
(*                                                                         *)
(* The script runs top to bottom on every Streamlit run: it loads the CSV, *)
(* restricts it to the south-west states, reads the two sidebar            *)
(* multiselects, filters the frame, and renders the KPIs, the map, the     *)
(* city bar chart, the state pie chart and the insights block.  Each       *)
(* section of the script is one action; pc is the position in the script.  *)
(*                                                                         *)
(* A data frame is a sequence of rows; every row keeps its pandas index    *)
(* label (idx), as boolean-mask indexing does.  A missing cell is NaN.     *)
(* A Series of counts is a sequence of [label, count] entries.             *)
(***************************************************************************)
EXTENDS Integers, Sequences, FiniteSets, TLC

\* ------------------------------------------------------------------ bounds
MaxRows == 3
MaxWideRows == 12

\* --------------------------------------------------------- program constants
TopCities == 10
TopStatesN == 6

south_west_states == {"lagos", "oyo", "ogun", "osun", "ondo", "ekiti"}

\* ------------------------------------------------------------ cell values
NaN == "NaN"

\* str.lower() on the state strings the model uses; NaN stays NaN.
StrLower(s) ==
    CASE s \in {"lagos", "Lagos", "LAGOS"} -> "lagos"
      [] s \in {"oyo", "Oyo", "OYO"} -> "oyo"
      [] s \in {"ogun", "Ogun"} -> "ogun"
      [] s \in {"kano", "Kano"} -> "kano"
      [] OTHER -> s

\* str.title() on the same strings; "N/A".title() is "N/A".
StrTitle(s) ==
    CASE s \in {"lagos", "Lagos", "LAGOS"} -> "Lagos"
      [] s \in {"oyo", "Oyo", "OYO"} -> "Oyo"
      [] s \in {"ogun", "Ogun"} -> "Ogun"
      [] s \in {"kano", "Kano"} -> "Kano"
      [] s = "osun" -> "Osun"
      [] s = "ondo" -> "Ondo"
      [] s = "ekiti" -> "Ekiti"
      [] OTHER -> s

\* ------------------------------------------------------------ input files
Row(c, s, i, g) == [city |-> c, state |-> s, industry |-> i, geo |-> g]

\* Rows a southwest_smes.csv may hold: case variants of a state, a missing
\* city or industry, a state outside the region, a missing state, and a row
\* without coordinates.
CsvRows ==
    { Row("ikeja", "lagos", "retail", TRUE),
      Row("lekki", "Lagos", "tech", TRUE),
      Row("ibadan", "oyo", NaN, TRUE),
      Row(NaN, "oyo", "retail", TRUE),
      Row("kano", "Kano", "retail", TRUE),
      Row("ibadan", NaN, "tech", TRUE),
      Row("ikeja", "lagos", "tech", FALSE) }

RECURSIVE SeqsUpTo(_, _)
SeqsUpTo(S, n) ==
    IF n = 0 THEN { <<>> }
    ELSE LET shorter == SeqsUpTo(S, n - 1)
         IN  shorter \cup { Append(q, x) : q \in { r \in shorter : Len(r) = n - 1 }, x \in S }

SmallFiles == SeqsUpTo(CsvRows, MaxRows)

\* A file with many distinct cities and many spellings of the state names:
\* row i cycles through eleven cities and eight state spellings.
WideCities == << "ikeja", "lekki", "ibadan", "abeokuta", "akure", "osogbo",
                 "ado", "ife", "ilesa", "ogbomoso", "badagry" >>
WideStates == << "lagos", "Lagos", "LAGOS", "oyo", "Oyo", "ogun", "osun", "ondo" >>

WideRow(i) ==
    Row(WideCities[((i - 1) % Len(WideCities)) + 1],
        WideStates[((i - 1) % Len(WideStates)) + 1],
        IF i % 3 = 0 THEN "tech" ELSE "retail",
        TRUE)

WideFiles == { [i \in 1..n |-> WideRow(i)] : n \in 1..MaxWideRows }

\* ------------------------------------------------------- frame operations
\* pd.read_csv: a RangeIndex labels the rows by position.
ReadCsv(file) == [i \in DOMAIN file |-> [idx |-> i, city |-> file[i].city,
                                          state |-> file[i].state,
                                          industry |-> file[i].industry,
                                          geo |-> file[i].geo]]

\* load_data: read the CSV and drop rows without coordinates.  Indexing a
\* frame with a boolean mask keeps the rows whose mask is true, in frame
\* order, with their labels.
HasGeo(r) == r.geo
LoadData(file) == SelectSeq(ReadCsv(file), HasGeo)

\* df[df['state'].str.lower().isin(south_west_states)]
InRegion(r) == r.state # NaN /\ StrLower(r.state) \in south_west_states
RegionFilter(d) == SelectSeq(d, InRegion)

\* df[name]: one column of a frame.
Column(d, name) == [i \in DOMAIN d |-> d[i][name]]

\* Series.dropna().unique() as a set of values.
Unique(col) == { col[i] : i \in DOMAIN col } \ { NaN }

\* Variants of the filter: the two conditions joined by | , and the kept
\* rows returned last row first.
FilterRowsEither(d, ss, si) ==
    LET keep(r) == r.state \in ss \/ r.industry \in si
    IN  SelectSeq(d, keep)

FilterRowsReversed(d, ss, si) ==
    LET keep(r) == r.state \in ss /\ r.industry \in si
        kept == SelectSeq(d, keep)
    IN  [k \in DOMAIN kept |-> kept[Len(kept) + 1 - k]]

\* df[df['state'].isin(selected_states) & df['industry'].isin(selected_industries)]
FilterRows(d, ss, si) ==
    LET keep(r) == r.state \in ss /\ r.industry \in si
    IN  SelectSeq(d, keep)

\* ------------------------------------------------------ Series operations
\* Variant of the frequency table that counts NaN as a value (dropna=False).
BumpKeepNaN(t, v) ==
    IF \E k \in DOMAIN t : t[k].label = v
    THEN [k \in DOMAIN t |-> IF t[k].label = v
                             THEN [label |-> v, count |-> t[k].count + 1]
                             ELSE t[k]]
    ELSE Append(t, [label |-> v, count |-> 1])

\* The frequency table behind value_counts: one entry per distinct non-NaN
\* value, in the order the values are first met while scanning the column.
Bump(t, v) ==
    IF v = NaN THEN t
    ELSE IF \E k \in DOMAIN t : t[k].label = v
         THEN [k \in DOMAIN t |-> IF t[k].label = v
                                  THEN [label |-> v, count |-> t[k].count + 1]
                                  ELSE t[k]]
         ELSE Append(t, [label |-> v, count |-> 1])

RECURSIVE Frequencies(_)
Frequencies(col) ==
    IF col = <<>> THEN <<>>
    ELSE Bump(Frequencies(SubSeq(col, 1, Len(col) - 1)), col[Len(col)])

\* Series.sort_values(ascending, kind='quicksort').  The script leaves the
\* sort kind at its default, numpy's quicksort, which is not a stable sort:
\* entries with equal counts come out in an order the script does not fix.
\* ties = "kept" leaves equal counts in table order, ties = "swapped"
\* returns them in the opposite order.
TieOrders == {"kept", "swapped"}

Precedes(t, i, j, ascending, ties) ==
    \/ IF ascending THEN t[i].count < t[j].count ELSE t[i].count > t[j].count
    \/ /\ t[i].count = t[j].count
       /\ IF ties = "kept" THEN i < j ELSE i > j

SortValues(t, ascending, ties) ==
    LET rank(i) == 1 + Cardinality({ j \in DOMAIN t : Precedes(t, j, i, ascending, ties) })
    IN  [k \in DOMAIN t |-> t[CHOOSE i \in DOMAIN t : rank(i) = k]]

\* Series.value_counts(): frequencies sorted by descending count.
ValueCounts(col, ties) == SortValues(Frequencies(col), FALSE, ties)

\* Series.head(n) and Series.iloc[n:]
HeadN(t, n) == SubSeq(t, 1, IF Len(t) < n THEN Len(t) ELSE n)
ILocFrom(t, n) == SubSeq(t, n + 1, Len(t))

RECURSIVE SumCounts(_)
SumCounts(t) == IF t = <<>> THEN 0 ELSE t[1].count + SumCounts(Tail(t))

MaxCount(t) == CHOOSE m \in { t[k].count : k \in DOMAIN t } :
                   \A k \in DOMAIN t : t[k].count <= m
\* Variant of idxmax that returns the last occurrence of the maximum.
IdxMaxLast(t) ==
    LET last == CHOOSE i \in DOMAIN t :
                    /\ t[i].count = MaxCount(t)
                    /\ \A j \in DOMAIN t : t[j].count = MaxCount(t) => i >= j
    IN  t[last].label

\* Series.idxmax(): the label of the first occurrence of the maximum.
IdxMax(t) ==
    LET first == CHOOSE i \in DOMAIN t :
                     /\ t[i].count = MaxCount(t)
                     /\ \A j \in DOMAIN t : t[j].count = MaxCount(t) => i <= j
    IN  t[first].label

\* state_counts.head(6) and state_counts.iloc[6:].sum()
top_states_of(sc) == HeadN(sc, TopStatesN)
\* Variant of the remainder that starts one entry too late (iloc[7:]).
others_skip(sc) == SumCounts(ILocFrom(sc, TopStatesN + 1))
others_of(sc) == SumCounts(ILocFrom(sc, TopStatesN))

\* Variant of the pie entries that appends "Others" whatever its count.
PieEntriesAlways(sc) ==
    top_states_of(sc) \o << [label |-> "Others", count |-> others_of(sc)] >>

\* labels / sizes of the pie chart, as one sequence of entries
PieEntries(sc) ==
    top_states_of(sc)
      \o (IF others_of(sc) > 0 THEN << [label |-> "Others", count |-> others_of(sc)] >>
          ELSE <<>>)

\* ', '.join(selected_industries) if selected_industries else "All":
\* the display text as the sequence of the joined names.
IndustryOrder == << "retail", "tech" >>
JoinSorted(S) ==
    LET keep(x) == x \in S IN SelectSeq(IndustryOrder, keep)
IndustriesFiltered(si) == IF si # {} THEN JoinSorted(si) ELSE << "All" >>

\* ------------------------------------------------------------------ state
VARIABLES
    csv,                  \* the contents of southwest_smes.csv
    df,                   \* the frame the script works on
    selected_states,      \* sidebar multiselect
    selected_industries,  \* sidebar multiselect
    filtered_df,
    kpi_total,            \* "Total SMEs" box, -1 while not rendered
    kpi_states,           \* "States Selected" box, -1 while not rendered
    city_counts,
    state_counts,
    pie,                  \* labels and sizes handed to ax.pie
    top_state,            \* the text shown as **Top State** ("" while unbound)
    top_count,            \* -1 while unbound
    industries_filtered,  \* the text shown as **Industries Filtered**
    shown,                \* the sections rendered in this run
    download,             \* rows offered by the download button
    pc

vars == << csv, df, selected_states, selected_industries, filtered_df,
           kpi_total, kpi_states, city_counts, state_counts, pie, top_state,
           top_count, industries_filtered, shown, download, pc >>

outputs == << kpi_total, kpi_states, city_counts, state_counts, pie, top_state,
              top_count, industries_filtered, shown, download >>

Blank ==
    /\ selected_states = {}
    /\ selected_industries = {}
    /\ filtered_df = <<>>
    /\ kpi_total = -1
    /\ kpi_states = -1
    /\ city_counts = <<>>
    /\ state_counts = <<>>
    /\ pie = <<>>
    /\ top_state = ""
    /\ top_count = -1
    /\ industries_filtered = <<>>
    /\ shown = {}
    /\ download = <<>>

Init ==
    /\ csv \in SmallFiles \cup WideFiles
    /\ df = <<>>
    /\ Blank
    /\ pc = "load"

\* df = load_data()
Load ==
    /\ pc = "load"
    /\ df' = LoadData(csv)
    /\ pc' = "region"
    /\ UNCHANGED << csv, selected_states, selected_industries, filtered_df, outputs >>

\* df = df[df['state'].str.lower().isin(south_west_states)]
Region ==
    /\ pc = "region"
    /\ df' = RegionFilter(df)
    /\ pc' = "sidebar"
    /\ UNCHANGED << csv, selected_states, selected_industries, filtered_df, outputs >>

\* The two multiselects: the user holds any subset of the offered options.
Sidebar ==
    /\ pc = "sidebar"
    /\ \E ss \in SUBSET Unique(Column(df, "state")), si \in SUBSET Unique(Column(df, "industry")) :
          /\ selected_states' = ss
          /\ selected_industries' = si
    /\ pc' = "filter"
    /\ UNCHANGED << csv, df, filtered_df, outputs >>

FilterLogic ==
    /\ pc = "filter"
    /\ filtered_df' = FilterRows(df, selected_states, selected_industries)
    /\ pc' = "kpi"
    /\ UNCHANGED << csv, df, selected_states, selected_industries, outputs >>

\* Variant of the KPI row that counts the states present in filtered_df.
KpisDistinct ==
    /\ pc = "kpi"
    /\ kpi_total' = Len(filtered_df)
    /\ kpi_states' = Cardinality(Unique(Column(filtered_df, "state")))
    /\ shown' = shown \cup {"kpi"}
    /\ pc' = "map"
    /\ UNCHANGED << csv, df, selected_states, selected_industries, filtered_df,
                    city_counts, state_counts, pie, top_state, top_count,
                    industries_filtered, download >>

Kpis ==
    /\ pc = "kpi"
    /\ kpi_total' = Len(filtered_df)
    /\ kpi_states' = Cardinality(selected_states)
    /\ shown' = shown \cup {"kpi"}
    /\ pc' = "map"
    /\ UNCHANGED << csv, df, selected_states, selected_industries, filtered_df,
                    city_counts, state_counts, pie, top_state, top_count,
                    industries_filtered, download >>

Map ==
    /\ pc = "map"
    /\ shown' = shown \cup { IF filtered_df # <<>> THEN "map" ELSE "warning" }
    /\ pc' = IF filtered_df # <<>> THEN "bar" ELSE "nomatch"
    /\ UNCHANGED << csv, df, selected_states, selected_industries, filtered_df,
                    kpi_total, kpi_states, city_counts, state_counts, pie,
                    top_state, top_count, industries_filtered, download >>

\* Variant of city_counts without the trailing sort_values().
CityCountsUnsorted(d, t1, t2) ==
    HeadN(ValueCounts(Column(d, "city"), t1), TopCities)

\* city_counts = filtered_df['city'].value_counts().head(10).sort_values()
CityCounts(d, t1, t2) ==
    SortValues(HeadN(ValueCounts(Column(d, "city"), t1), TopCities), TRUE, t2)

BarChart ==
    /\ pc = "bar"
    /\ \E t1 \in TieOrders, t2 \in TieOrders :
          city_counts' = CityCounts(filtered_df, t1, t2)
    /\ shown' = shown \cup {"bar"}
    /\ pc' = "pie"
    /\ UNCHANGED << csv, df, selected_states, selected_industries, filtered_df,
                    kpi_total, kpi_states, state_counts, pie, top_state,
                    top_count, industries_filtered, download >>

PieChart ==
    /\ pc = "pie"
    /\ \E t \in TieOrders :
          state_counts' = ValueCounts(Column(filtered_df, "state"), t)
    /\ pie' = PieEntries(state_counts')
    /\ shown' = shown \cup { IF pie' # <<>> THEN "pie" ELSE "nopie" }
    /\ pc' = "insights"
    /\ UNCHANGED << csv, df, selected_states, selected_industries, filtered_df,
                    kpi_total, kpi_states, city_counts, top_state, top_count,
                    industries_filtered, download >>

TopState(sc) == IF top_states_of(sc) # <<>> THEN IdxMax(top_states_of(sc)) ELSE "N/A"
TopCount(sc) == IF top_states_of(sc) # <<>> THEN MaxCount(top_states_of(sc)) ELSE 0

Insights ==
    /\ pc = "insights"
    /\ top_state' = StrTitle(TopState(state_counts))
    /\ top_count' = TopCount(state_counts)
    /\ industries_filtered' = IndustriesFiltered(selected_industries)
    /\ shown' = shown \cup {"insights"}
    /\ pc' = "download"
    /\ UNCHANGED << csv, df, selected_states, selected_industries, filtered_df,
                    kpi_total, kpi_states, city_counts, state_counts, pie, download >>

\* else: st.info("No SMEs match your filters.")
NoMatch ==
    /\ pc = "nomatch"
    /\ shown' = shown \cup {"info"}
    /\ pc' = "download"
    /\ UNCHANGED << csv, df, selected_states, selected_industries, filtered_df,
                    kpi_total, kpi_states, city_counts, state_counts, pie,
                    top_state, top_count, industries_filtered, download >>

Download ==
    /\ pc = "download"
    /\ download' = filtered_df
    /\ pc' = "done"
    /\ UNCHANGED << csv, df, selected_states, selected_industries, filtered_df,
                    kpi_total, kpi_states, city_counts, state_counts, pie,
                    top_state, top_count, industries_filtered, shown >>

\* A widget change reruns the script from the top with fresh variables;
\* load_data is cached, so the frame is the one of the first run.
Rerun ==
    /\ pc = "done"
    /\ df' = RegionFilter(LoadData(csv))
    /\ selected_states' = {}
    /\ selected_industries' = {}
    /\ filtered_df' = <<>>
    /\ kpi_total' = -1
    /\ kpi_states' = -1
    /\ city_counts' = <<>>
    /\ state_counts' = <<>>
    /\ pie' = <<>>
    /\ top_state' = ""
    /\ top_count' = -1
    /\ industries_filtered' = <<>>
    /\ shown' = {}
    /\ download' = <<>>
    /\ pc' = "sidebar"
    /\ UNCHANGED csv

Next ==
    \/ Load
    \/ Region
    \/ Sidebar
    \/ FilterLogic
    \/ Kpis
    \/ Map
    \/ BarChart
    \/ PieChart
    \/ Insights
    \/ NoMatch
    \/ Download
    \/ Rerun

Spec == Init /\ [][Next]_vars

\* ------------------------------------------------------------- properties
\* Positions of the script at which a section's results are bound.
FilterDone == pc \notin {"load", "region", "sidebar", "filter"}
KpiDone == "kpi" \in shown
BarDone == "bar" \in shown
PieDone == BarDone /\ pc \in {"insights", "download", "done"}
InsightsDone == "insights" \in shown
RunDone == pc = "done"

Passes(r) == r.state \in selected_states /\ r.industry \in selected_industries
InFrame(d, r) == \E i \in DOMAIN d : d[i] = r

Labels(t) == { t[k].label : k \in DOMAIN t }
CountOf(d, name, v) == Cardinality({ i \in DOMAIN d : d[i][name] = v })
Present(d, name) == Cardinality({ i \in DOMAIN d : d[i][name] # NaN })
FirstSeen(d, name, v) == CHOOSE i \in DOMAIN d :
                             /\ d[i][name] = v
                             /\ \A j \in DOMAIN d : d[j][name] = v => i <= j
Descending(t) == \A i, j \in DOMAIN t : i < j => t[i].count >= t[j].count
Ascending(t) == \A i, j \in DOMAIN t : i < j => t[i].count <= t[j].count
TiesFirstSeen(t, d, name) ==
    \A i, j \in DOMAIN t :
        (i < j /\ t[i].count = t[j].count)
            => FirstSeen(d, name, t[i].label) < FirstSeen(d, name, t[j].label)
NotOthers(e) == e.label # "Others"
RealStates(t) == SelectSeq(t, NotOthers)

\* C1: a row of df is in filtered_df exactly when its state is selected and
\* its industry is selected; filtered_df holds only rows of df, none with a
\* missing state or industry, and an empty selection yields an empty frame.
C1_FilterMembership ==
    FilterDone =>
        /\ \A i \in DOMAIN df : InFrame(filtered_df, df[i]) <=> Passes(df[i])
        /\ \A j \in DOMAIN filtered_df : InFrame(df, filtered_df[j])
        /\ \A j \in DOMAIN filtered_df :
              filtered_df[j].state # NaN /\ filtered_df[j].industry # NaN
        /\ (selected_states = {} \/ selected_industries = {}) => filtered_df = <<>>

\* A run in which the filter kept some rows and dropped a row whose
\* industry is missing although its state is selected.
C1_Witness ==
    /\ FilterDone
    /\ filtered_df # <<>>
    /\ \E i \in DOMAIN df :
          /\ df[i].industry = NaN
          /\ df[i].state \in selected_states
          /\ ~InFrame(filtered_df, df[i])

\* C2: rows that survive the filter keep the relative order they have in df.
C2_FilterKeepsOrder ==
    FilterDone =>
        \A j, k \in DOMAIN filtered_df :
            j < k => \E a, b \in DOMAIN df :
                        a < b /\ df[a] = filtered_df[j] /\ df[b] = filtered_df[k]

\* A run in which at least two rows survive and at least one is dropped.
C2_Witness ==
    /\ FilterDone
    /\ Len(filtered_df) >= 2
    /\ Len(filtered_df) < Len(df)

\* C3 as stated: the city ranking and the state ranking are each in
\* descending order of count as soon as they are built, and a finished run
\* shows equal counts in first-encountered order.
C3_AsStated ==
    /\ BarDone => Descending(city_counts)
    /\ PieDone => Descending(RealStates(pie))
    /\ RunDone => /\ TiesFirstSeen(city_counts, filtered_df, "city")
                  /\ TiesFirstSeen(RealStates(pie), filtered_df, "state")

\* C3 amended: the state ranking is in descending order of count; the city
\* ranking holds the (at most ten) cities with the highest counts, each with
\* its frequency among the filtered rows, listed in ascending order of count.
C3_RankingOrder ==
    /\ BarDone =>
          /\ Ascending(city_counts)
          /\ \A k \in DOMAIN city_counts :
                city_counts[k].count = CountOf(filtered_df, "city", city_counts[k].label)
          /\ \A c \in Unique(Column(filtered_df, "city")) \ Labels(city_counts) :
                /\ Len(city_counts) = TopCities
                /\ \A k \in DOMAIN city_counts :
                      CountOf(filtered_df, "city", c) <= city_counts[k].count
    /\ PieDone =>
          /\ Descending(state_counts)
          /\ Descending(RealStates(pie))
          /\ \A k \in DOMAIN state_counts :
                state_counts[k].count = CountOf(filtered_df, "state", state_counts[k].label)

\* A run whose city ranking and state ranking both hold unequal counts.
C3_Witness ==
    /\ PieDone
    /\ Len(city_counts) >= 2
    /\ city_counts[1].count < city_counts[Len(city_counts)].count
    /\ Len(state_counts) >= 2
    /\ state_counts[1].count > state_counts[Len(state_counts)].count

\* C4: the pie keeps the six highest-ranked states and, exactly when the
\* filtered rows hold more than six distinct states (the remainder f is then
\* positive), ends with one entry ("Others", f), seven entries in all; with
\* six or fewer distinct states there is no "Others" entry; no count is 0.
C4_OthersBucket ==
    PieDone =>
        LET distinct == Cardinality(Unique(Column(filtered_df, "state")))
            kept == { state_counts[k].label : k \in 1..TopStatesN }
            f == Cardinality({ i \in DOMAIN filtered_df : filtered_df[i].state \notin kept })
        IN  /\ distinct > TopStatesN =>
                  /\ f > 0
                  /\ Len(pie) = TopStatesN + 1
                  /\ pie[Len(pie)] = [label |-> "Others", count |-> f]
                  /\ SubSeq(pie, 1, TopStatesN) = SubSeq(state_counts, 1, TopStatesN)
                  /\ \A k \in 1..TopStatesN : \A m \in (TopStatesN + 1)..Len(state_counts) :
                        pie[k].count >= state_counts[m].count
            /\ distinct <= TopStatesN =>
                  /\ pie = state_counts
                  /\ Len(pie) = distinct
                  /\ "Others" \notin Labels(pie)
            /\ \A k \in DOMAIN pie : pie[k].count > 0

\* A run whose pie ends with an "Others" entry that stands for two rows.
C4_Witness ==
    /\ PieDone
    /\ Len(pie) = TopStatesN + 1
    /\ pie[Len(pie)].label = "Others"
    /\ pie[Len(pie)].count >= 2

\* C5 as stated: top_count is the maximum count of the state ranking the
\* dashboard builds (the pie entries), top_state the title-cased label of
\* the first entry with that count, and never "Others".
C5_AsStated ==
    (InsightsDone /\ pie # <<>>) =>
        /\ top_count = MaxCount(pie)
        /\ top_state = StrTitle(IdxMax(pie))
        /\ top_state # "Others"

\* C5 amended: top_count is the maximum count among the entries of real
\* states (the "Others" entry left aside, whose count may be larger),
\* top_state is the title-cased label of the first of them with that count,
\* and "Others" is never reported.
C5_TopState ==
    (InsightsDone /\ pie # <<>>) =>
        /\ top_count = MaxCount(RealStates(pie))
        /\ \A k \in DOMAIN state_counts : state_counts[k].count <= top_count
        /\ \E k \in DOMAIN state_counts :
              /\ state_counts[k].count = top_count
              /\ \A j \in 1..(k - 1) : state_counts[j].count # top_count
              /\ top_state = StrTitle(state_counts[k].label)
        /\ top_state # "Others"

\* A run in which two differently named states share the maximum count.
C5_Witness ==
    /\ InsightsDone
    /\ Len(state_counts) >= 2
    /\ state_counts[1].count = state_counts[2].count
    /\ StrTitle(state_counts[1].label) # StrTitle(state_counts[2].label)

\* C6: a run whose filtered frame is empty ends with a summary holding
\* totalCount = 0, topState = "N/A" and topStateCount = 0.
C6_EmptySummary ==
    (RunDone /\ filtered_df = <<>>) =>
        /\ InsightsDone
        /\ kpi_total = 0
        /\ top_state = "N/A"
        /\ top_count = 0

\* C7: the "States Selected" figure is the number of selected states,
\* whatever the filter kept.
C7_StateCount ==
    KpiDone => kpi_states = Cardinality(selected_states)

\* A run in which states are selected and no row matches.
C7_Witness ==
    /\ KpiDone
    /\ kpi_states >= 1
    /\ filtered_df = <<>>
    /\ Cardinality(Unique(Column(filtered_df, "state"))) # kpi_states

\* C8: a run with no industry selected shows "All" as the industries text.
C8_IndustriesAll ==
    (RunDone /\ selected_industries = {}) => industries_filtered = << "All" >>

\* C9 as stated: the counts of city_counts sum to the number of filtered
\* rows with a city, and those of state_counts to the number with a state.
C9_AsStated ==
    /\ BarDone => SumCounts(city_counts) = Present(filtered_df, "city")
    /\ PieDone => SumCounts(state_counts) = Present(filtered_df, "state")

\* C9 amended: the counts of state_counts always sum to the number of
\* filtered rows with a state; those of city_counts sum to the number of
\* filtered rows with a city when these hold at most ten distinct cities,
\* and to less otherwise.
C9_CountTotals ==
    /\ BarDone =>
          IF Cardinality(Unique(Column(filtered_df, "city"))) <= TopCities
          THEN SumCounts(city_counts) = Present(filtered_df, "city")
          ELSE SumCounts(city_counts) < Present(filtered_df, "city")
    /\ PieDone => SumCounts(state_counts) = Present(filtered_df, "state")

\* A run whose filtered rows include one without a city.
C9_Witness ==
    /\ PieDone
    /\ city_counts # <<>>
    /\ Present(filtered_df, "city") < Len(filtered_df)

\* C10: the counts handed to the pie chart sum to the "Total SMEs" figure,
\* the number of filtered rows.
C10_PieTotal ==
    (PieDone /\ filtered_df # <<>>) =>
        /\ SumCounts(pie) = kpi_total
        /\ kpi_total = Len(filtered_df)

\* A run whose pie holds an "Others" entry next to states of unequal counts.
C10_Witness ==
    /\ PieDone
    /\ "Others" \in Labels(pie)
    /\ pie[1].count > pie[TopStatesN].count

====
